---- MODULE Spec2Model ----
(***************************************************************************)
(* MultiButton: the debouncing filter, the click/long-press automaton and  *)
(* the linked list of active buttons of multi_button.c, as a state machine.*)
(* A tick (button_ticks) is one atomic step: it walks the list from        *)
(* head_handle and runs button_handler on every node it visits.            *)
(***************************************************************************)
EXTENDS Integers, Sequences, FiniteSets, TLC

\* ---------------------------------------------------------------- constants
\* multi_button.h
TICKS_INTERVAL == 5
DEBOUNCE_TICKS == 3
SHORT_TICKS == 300 \div TICKS_INTERVAL
LONG_TICKS == 1000 \div TICKS_INTERVAL
PRESS_REPEAT_MAX_NUM == 15

\* ButtonEvent
BTN_PRESS_DOWN == 0
BTN_PRESS_UP == 1
BTN_PRESS_REPEAT == 2
BTN_SINGLE_CLICK == 3
BTN_DOUBLE_CLICK == 4
BTN_LONG_PRESS_START == 5
BTN_LONG_PRESS_HOLD == 6
BTN_EVENT_COUNT == 7
BTN_NONE_PRESS == 8

\* ButtonState
BTN_STATE_IDLE == 0
BTN_STATE_PRESS == 1
BTN_STATE_RELEASE == 2
BTN_STATE_REPEAT == 3
BTN_STATE_LONG_HOLD == 4

\* widths of the bit fields of struct _Button
TicksWidth == 65536
RepeatWidth == 16
DebounceWidth == 8
StateWidth == 8

\* return values of button_start
START_OK == 0
START_EXISTS == -1
START_INVALID == -2

\* ------------------------------------------------------------------- bounds
\* Number of Button objects the application owns.
NButtons == 3
\* button_ticks is not called once an active button's ticks reached MaxTicks
\* (ticks keeps counting in BTN_STATE_LONG_HOLD).
MaxTicks == 206
\* Number of button_ticks calls explored by the registry specification.
MaxRegTicks == 2
\* Number of button_ticks calls the fault specification explores after the stray write.
MaxFaultTicks == 2
\* Number of button_ticks calls explored by the long-press scenario.
MaxScenarioTicks == 210
\* Number of consecutive inactive samples explored by the quiet-line specification.
MaxQuietTicks == 67
\* Number of buttons the application specification starts.
NAppButtons == 2
\* Number of button_ticks calls explored by the application specification.
MaxAppTicks == 3

\* ------------------------------------------------------------------ handles
NULL == 0
Buttons == 1..NButtons
Handles == Buttons \cup {NULL}
Levels == {0, 1}
\* handler bodies the application may attach: CbRecord logs its invocation ...
CbRecord == 1
\* ... and CbStop also calls button_stop on the button it is invoked for
CbStop == 2
Events == 0..(BTN_EVENT_COUNT - 1)

VARIABLES
    btn,          \* handle -> struct _Button
    head_handle,  \* head of the list of active buttons
    op,           \* the last API call: its name, its handle argument, its return value
    sampled,      \* last button_ticks: <<button_id, level>> of every HAL read, in order
    emit,         \* last button_ticks: <<handle, event>> of every EVENT_CB, in order
    calls,        \* last button_ticks: handler invocations, in order
    streak,       \* handle -> number of latest consecutive samples that differ from
                  \* button_level (DEBOUNCE_TICKS stands for that many or more)
    obs,          \* handle -> what an observer of the debounced level has counted
    prev,         \* btn, head_handle, streak and obs as they were before the last
                  \* button_ticks, when that is the last call (else as they are)
    prevList,     \* the list of active buttons as it was before the last call
    clock         \* number of button_ticks calls counted by the registry specification

vars == <<btn, head_handle, op, sampled, emit, calls, streak, obs, prev, prevList, clock>>

\* The part of the state the C code reads and writes, plus the logs of one tick.
World == [btn |-> btn, head |-> head_handle, sampled |-> sampled, emit |-> emit, calls |-> calls]

Before == [btn |-> btn, head |-> head_handle, streak |-> streak, obs |-> obs]
After == [btn |-> btn', head |-> head_handle', streak |-> streak', obs |-> obs']

Call(name, handle, retval) == [name |-> name, h |-> handle, ret |-> retval]

Not(level) == 1 - level

\* ----------------------------------------------------------- button_init
InitButton(pin_level, active_level, button_id) ==
    [ ticks |-> 0, repeat |-> 0, event |-> BTN_NONE_PRESS, state |-> BTN_STATE_IDLE,
      debounce_cnt |-> 0, active_level |-> active_level,
      button_level |-> Not(active_level), button_id |-> button_id,
      hal_button_level |-> pin_level, cb |-> [e \in Events |-> NULL], next |-> NULL ]

\* ------------------------------------------------------------ the list
\* The handles reached from h by following next (the active set, in order).
RECURSIVE ListFrom(_, _, _)
ListFrom(b, h, fuel) ==
    IF h = NULL \/ fuel = 0 THEN <<>> ELSE <<h>> \o ListFrom(b, b[h].next, fuel - 1)

ActiveList == ListFrom(btn, head_handle, NButtons + 1)

SeqToSet(s) == {s[i] : i \in 1..Len(s)}
ActiveSet == SeqToSet(ActiveList)

\* ----------------------------------------------------------- button_stop
\* for (curr = &head_handle; *curr; ) ... : unlink the first node equal to handle
RECURSIVE StopLoop(_, _, _, _)
\* curr is the handle whose next field *curr is (NULL: *curr is head_handle)
StopLoop(w, curr, handle, fuel) ==
    LET entry == IF curr = NULL THEN w.head ELSE w.btn[curr].next
    IN  IF entry = NULL \/ fuel = 0 THEN w
        ELSE IF entry = handle
        THEN LET w1 == IF curr = NULL THEN [w EXCEPT !.head = w.btn[entry].next]
                       ELSE [w EXCEPT !.btn[curr].next = w.btn[entry].next]
             IN  [w1 EXCEPT !.btn[entry].next = NULL]
        ELSE StopLoop(w, entry, handle, fuel - 1)

\* button_stop that always writes the successor into head_handle
button_stopIntoHead(w, handle) ==
    IF handle = NULL \/ handle \notin SeqToSet(ListFrom(w.btn, w.head, NButtons + 1)) THEN w
    ELSE [w EXCEPT !.head = w.btn[handle].next, !.btn[handle].next = NULL]

button_stop(w, handle) ==
    IF handle = NULL THEN w ELSE StopLoop(w, NULL, handle, NButtons + 1)

\* --------------------------------------------------------------- EVENT_CB
\* A handler runs with the world as it is at the call: it logs its invocation, and a
\* CbStop handler then calls button_stop on its own button.
InvokeCb(w, h, ev, kind) ==
    LET w1 == [w EXCEPT !.calls = Append(@, [h |-> h, ev |-> ev,
                                              repeat |-> w.btn[h].repeat,
                                              event |-> w.btn[h].event])]
    IN  IF kind = CbStop THEN button_stop(w1, h) ELSE w1

EVENT_CB(w, h, ev) ==
    LET w1 == [w EXCEPT !.emit = Append(@, <<h, ev>>)]
    IN  IF w1.btn[h].cb[ev] # NULL THEN InvokeCb(w1, h, ev, w1.btn[h].cb[ev]) ELSE w1

SetEvent(w, h, ev) == [w EXCEPT !.btn[h].event = ev]
SetTicks(w, h, t) == [w EXCEPT !.btn[h].ticks = t]
SetRepeat(w, h, r) == [w EXCEPT !.btn[h].repeat = r]
SetState(w, h, s) == [w EXCEPT !.btn[h].state = s]

\* ----------------------------------------------------------- button_handler
\* ticks++ when the state is not idle
CountTicks(w, h) ==
    IF w.btn[h].state > BTN_STATE_IDLE
    THEN SetTicks(w, h, (w.btn[h].ticks + 1) % TicksWidth)
    ELSE w

\* the debounce filter without the else branch: an equal sample does not clear the count
DebounceNoCancel(w, h, read_gpio_level) ==
    IF read_gpio_level # w.btn[h].button_level
    THEN LET cnt == (w.btn[h].debounce_cnt + 1) % DebounceWidth
         IN  IF cnt >= DEBOUNCE_TICKS
             THEN [w EXCEPT !.btn[h].button_level = read_gpio_level,
                            !.btn[h].debounce_cnt = 0]
             ELSE [w EXCEPT !.btn[h].debounce_cnt = cnt]
    ELSE w

\* the debounce filter
Debounce(w, h, read_gpio_level) ==
    IF read_gpio_level # w.btn[h].button_level
    THEN LET cnt == (w.btn[h].debounce_cnt + 1) % DebounceWidth
         IN  IF cnt >= DEBOUNCE_TICKS
             THEN [w EXCEPT !.btn[h].button_level = read_gpio_level,
                            !.btn[h].debounce_cnt = 0]
             ELSE [w EXCEPT !.btn[h].debounce_cnt = cnt]
    ELSE [w EXCEPT !.btn[h].debounce_cnt = 0]

Active(w, h) == w.btn[h].button_level = w.btn[h].active_level

\* BTN_STATE_IDLE that leaves the event field alone while the level is inactive
StateIdleKeepEvent(w, h) ==
    IF Active(w, h)
    THEN LET w1 == SetEvent(w, h, BTN_PRESS_DOWN)
             w2 == EVENT_CB(w1, h, BTN_PRESS_DOWN)
             w3 == SetTicks(w2, h, 0)
             w4 == SetRepeat(w3, h, 1)
         IN  SetState(w4, h, BTN_STATE_PRESS)
    ELSE w

\* BTN_STATE_IDLE that does not set repeat on a press
StateIdleNoRepeat(w, h) ==
    IF Active(w, h)
    THEN LET w1 == SetEvent(w, h, BTN_PRESS_DOWN)
             w2 == EVENT_CB(w1, h, BTN_PRESS_DOWN)
             w3 == SetTicks(w2, h, 0)
         IN  SetState(w3, h, BTN_STATE_PRESS)
    ELSE SetEvent(w, h, BTN_NONE_PRESS)

StateIdle(w, h) ==
    IF Active(w, h)
    THEN LET w1 == SetEvent(w, h, BTN_PRESS_DOWN)
             w2 == EVENT_CB(w1, h, BTN_PRESS_DOWN)
             w3 == SetTicks(w2, h, 0)
             w4 == SetRepeat(w3, h, 1)
         IN  SetState(w4, h, BTN_STATE_PRESS)
    ELSE SetEvent(w, h, BTN_NONE_PRESS)

\* BTN_STATE_PRESS without "ticks = 0" on release
StatePressKeepTicks(w, h) ==
    IF ~Active(w, h)
    THEN LET w1 == SetEvent(w, h, BTN_PRESS_UP)
             w2 == EVENT_CB(w1, h, BTN_PRESS_UP)
         IN  SetState(w2, h, BTN_STATE_RELEASE)
    ELSE IF w.btn[h].ticks > LONG_TICKS
    THEN LET w1 == SetEvent(w, h, BTN_LONG_PRESS_START)
             w2 == EVENT_CB(w1, h, BTN_LONG_PRESS_START)
         IN  SetState(w2, h, BTN_STATE_LONG_HOLD)
    ELSE w

\* BTN_STATE_PRESS that reports the long press one tick early
StatePressAtLong(w, h) ==
    IF ~Active(w, h)
    THEN LET w1 == SetEvent(w, h, BTN_PRESS_UP)
             w2 == EVENT_CB(w1, h, BTN_PRESS_UP)
             w3 == SetTicks(w2, h, 0)
         IN  SetState(w3, h, BTN_STATE_RELEASE)
    ELSE IF w.btn[h].ticks >= LONG_TICKS
    THEN LET w1 == SetEvent(w, h, BTN_LONG_PRESS_START)
             w2 == EVENT_CB(w1, h, BTN_LONG_PRESS_START)
         IN  SetState(w2, h, BTN_STATE_LONG_HOLD)
    ELSE w

StatePress(w, h) ==
    IF ~Active(w, h)
    THEN LET w1 == SetEvent(w, h, BTN_PRESS_UP)
             w2 == EVENT_CB(w1, h, BTN_PRESS_UP)
             w3 == SetTicks(w2, h, 0)
         IN  SetState(w3, h, BTN_STATE_RELEASE)
    ELSE IF w.btn[h].ticks > LONG_TICKS
    THEN LET w1 == SetEvent(w, h, BTN_LONG_PRESS_START)
             w2 == EVENT_CB(w1, h, BTN_LONG_PRESS_START)
         IN  SetState(w2, h, BTN_STATE_LONG_HOLD)
    ELSE w

\* repeat++ without the guard: the 4-bit field wraps
BumpRepeatNoCap(r) == (r + 1) % RepeatWidth

\* if (repeat < PRESS_REPEAT_MAX_NUM) repeat++
BumpRepeat(r) == IF r < PRESS_REPEAT_MAX_NUM THEN (r + 1) % RepeatWidth ELSE r

\* BTN_STATE_RELEASE that reports the repeat before counting it
StateReleaseLateBump(w, h) ==
    IF Active(w, h)
    THEN LET w1 == SetEvent(w, h, BTN_PRESS_DOWN)
             w2 == EVENT_CB(w1, h, BTN_PRESS_DOWN)
             w3 == EVENT_CB(w2, h, BTN_PRESS_REPEAT)
             w4 == SetRepeat(w3, h, BumpRepeat(w3.btn[h].repeat))
             w5 == SetTicks(w4, h, 0)
         IN  SetState(w5, h, BTN_STATE_REPEAT)
    ELSE IF w.btn[h].ticks > SHORT_TICKS
    THEN LET w1 == IF w.btn[h].repeat = 1
                   THEN EVENT_CB(SetEvent(w, h, BTN_SINGLE_CLICK), h, BTN_SINGLE_CLICK)
                   ELSE IF w.btn[h].repeat = 2
                   THEN EVENT_CB(SetEvent(w, h, BTN_DOUBLE_CLICK), h, BTN_DOUBLE_CLICK)
                   ELSE w
         IN  SetState(w1, h, BTN_STATE_IDLE)
    ELSE w

StateRelease(w, h) ==
    IF Active(w, h)
    THEN LET w1 == SetEvent(w, h, BTN_PRESS_DOWN)
             w2 == EVENT_CB(w1, h, BTN_PRESS_DOWN)
             w3 == SetRepeat(w2, h, BumpRepeat(w2.btn[h].repeat))
             w4 == EVENT_CB(w3, h, BTN_PRESS_REPEAT)
             w5 == SetTicks(w4, h, 0)
         IN  SetState(w5, h, BTN_STATE_REPEAT)
    ELSE IF w.btn[h].ticks > SHORT_TICKS
    THEN LET w1 == IF w.btn[h].repeat = 1
                   THEN EVENT_CB(SetEvent(w, h, BTN_SINGLE_CLICK), h, BTN_SINGLE_CLICK)
                   ELSE IF w.btn[h].repeat = 2
                   THEN EVENT_CB(SetEvent(w, h, BTN_DOUBLE_CLICK), h, BTN_DOUBLE_CLICK)
                   ELSE w
         IN  SetState(w1, h, BTN_STATE_IDLE)
    ELSE w

\* BTN_STATE_REPEAT that turns a held re-press into a long press itself
StateRepeatToLongHold(w, h) ==
    IF ~Active(w, h)
    THEN LET w1 == SetEvent(w, h, BTN_PRESS_UP)
             w2 == EVENT_CB(w1, h, BTN_PRESS_UP)
         IN  IF w2.btn[h].ticks < SHORT_TICKS
             THEN SetState(SetTicks(w2, h, 0), h, BTN_STATE_RELEASE)
             ELSE SetState(w2, h, BTN_STATE_IDLE)
    ELSE IF w.btn[h].ticks > SHORT_TICKS
    THEN LET w1 == SetEvent(w, h, BTN_LONG_PRESS_START)
             w2 == EVENT_CB(w1, h, BTN_LONG_PRESS_START)
         IN  SetState(w2, h, BTN_STATE_LONG_HOLD)
    ELSE w

StateRepeat(w, h) ==
    IF ~Active(w, h)
    THEN LET w1 == SetEvent(w, h, BTN_PRESS_UP)
             w2 == EVENT_CB(w1, h, BTN_PRESS_UP)
         IN  IF w2.btn[h].ticks < SHORT_TICKS
             THEN SetState(SetTicks(w2, h, 0), h, BTN_STATE_RELEASE)
             ELSE SetState(w2, h, BTN_STATE_IDLE)
    ELSE IF w.btn[h].ticks > SHORT_TICKS
    THEN SetState(w, h, BTN_STATE_PRESS)
    ELSE w

\* BTN_STATE_LONG_HOLD that reports the hold only once
StateLongHoldOnce(w, h) ==
    IF Active(w, h)
    THEN IF w.btn[h].event = BTN_LONG_PRESS_HOLD THEN w
         ELSE EVENT_CB(SetEvent(w, h, BTN_LONG_PRESS_HOLD), h, BTN_LONG_PRESS_HOLD)
    ELSE LET w1 == SetEvent(w, h, BTN_PRESS_UP)
             w2 == EVENT_CB(w1, h, BTN_PRESS_UP)
         IN  SetState(w2, h, BTN_STATE_IDLE)

\* BTN_STATE_LONG_HOLD that goes idle without reporting the release
StateLongHoldNoUp(w, h) ==
    IF Active(w, h)
    THEN EVENT_CB(SetEvent(w, h, BTN_LONG_PRESS_HOLD), h, BTN_LONG_PRESS_HOLD)
    ELSE SetState(w, h, BTN_STATE_IDLE)

StateLongHold(w, h) ==
    IF Active(w, h)
    THEN EVENT_CB(SetEvent(w, h, BTN_LONG_PRESS_HOLD), h, BTN_LONG_PRESS_HOLD)
    ELSE LET w1 == SetEvent(w, h, BTN_PRESS_UP)
             w2 == EVENT_CB(w1, h, BTN_PRESS_UP)
         IN  SetState(w2, h, BTN_STATE_IDLE)

\* the switch without its default branch
StateMachineNoDefault(w, h) ==
    CASE w.btn[h].state = BTN_STATE_IDLE -> StateIdle(w, h)
      [] w.btn[h].state = BTN_STATE_PRESS -> StatePress(w, h)
      [] w.btn[h].state = BTN_STATE_RELEASE -> StateRelease(w, h)
      [] w.btn[h].state = BTN_STATE_REPEAT -> StateRepeat(w, h)
      [] w.btn[h].state = BTN_STATE_LONG_HOLD -> StateLongHold(w, h)
      [] OTHER -> w

\* switch (handle->state)
StateMachine(w, h) ==
    CASE w.btn[h].state = BTN_STATE_IDLE -> StateIdle(w, h)
      [] w.btn[h].state = BTN_STATE_PRESS -> StatePress(w, h)
      [] w.btn[h].state = BTN_STATE_RELEASE -> StateRelease(w, h)
      [] w.btn[h].state = BTN_STATE_REPEAT -> StateRepeat(w, h)
      [] w.btn[h].state = BTN_STATE_LONG_HOLD -> StateLongHold(w, h)
      [] OTHER -> SetState(w, h, BTN_STATE_IDLE)

\* button_read_level: gpio maps a button_id to the level of its line now
button_read_level(w, h, gpio) == gpio[w.btn[h].button_id]

button_handler(w, h, gpio) ==
    LET read_gpio_level == button_read_level(w, h, gpio)
        w0 == [w EXCEPT !.sampled = Append(@, <<w.btn[h].button_id, read_gpio_level>>)]
        w1 == CountTicks(w0, h)
        w2 == Debounce(w1, h, read_gpio_level)
    IN  StateMachine(w2, h)

\* ------------------------------------------------------------- button_ticks
\* for (target = head_handle; target; target = target->next) button_handler(target)
RECURSIVE TickLoop(_, _, _, _)
TickLoop(w, target, gpio, fuel) ==
    IF target = NULL \/ fuel = 0 THEN w
    ELSE LET w1 == button_handler(w, target, gpio)
         IN  TickLoop(w1, w1.btn[target].next, gpio, fuel - 1)

\* button_ticks that starts the walk at the second node
button_ticksSkipHead(w, gpio) ==
    TickLoop([w EXCEPT !.sampled = <<>>, !.emit = <<>>, !.calls = <<>>],
             IF w.head = NULL THEN NULL ELSE w.btn[w.head].next, gpio, NButtons + 1)

button_ticks(w, gpio) ==
    TickLoop([w EXCEPT !.sampled = <<>>, !.emit = <<>>, !.calls = <<>>],
             w.head, gpio, NButtons + 1)

\* the samples of one tick, per handle (NULL for a handle that was not sampled)
SampleOf(w, h) ==
    LET hits == {i \in 1..Len(w.sampled) : w.sampled[i][1] = w.btn[h].button_id}
    IN  IF hits = {} THEN <<>> ELSE <<w.sampled[CHOOSE i \in hits : TRUE][2]>>

NextStreak(w, h, old) ==
    LET s == SampleOf(w, h)
    IN  IF s = <<>> THEN old
        ELSE IF s[1] = w.btn[h].button_level THEN 0
        ELSE IF old < DEBOUNCE_TICKS THEN old + 1 ELSE old

Min(a, b) == IF a < b THEN a ELSE b

\* An observer of the debounced level alone. held: ticks the level has been active
\* since it became active (LONG_TICKS + 1: more than LONG_TICKS). quiet: ticks the
\* level has been inactive since it became inactive (SHORT_TICKS + 1: the quiet
\* window expired in this tick; SHORT_TICKS + 2: it expired earlier). cycles: the
\* presses of the current burst, a press joining the burst when it starts before
\* the quiet window after the previous release expired (3: three or more). A long
\* press ends the burst at its release.
ObsInit == [held |-> 0, quiet |-> SHORT_TICKS + 2, cycles |-> 0]

NextObs(o, wasActive, isActive) ==
    IF isActive
    THEN IF ~wasActive
         THEN [held |-> 0, quiet |-> 0,
               cycles |-> IF o.quiet > SHORT_TICKS THEN 1 ELSE Min(o.cycles + 1, 3)]
         ELSE [o EXCEPT !.held = Min(@ + 1, LONG_TICKS + 1)]
    ELSE IF wasActive
         THEN IF o.held > LONG_TICKS
              THEN [held |-> 0, quiet |-> SHORT_TICKS + 2, cycles |-> 0]
              ELSE [o EXCEPT !.held = 0, !.quiet = 0]
         ELSE [o EXCEPT !.quiet = Min(@ + 1, SHORT_TICKS + 2)]

TickEffect(gpio) ==
    LET w == button_ticks(World, gpio)
    IN  /\ btn' = w.btn
        /\ head_handle' = w.head
        /\ sampled' = w.sampled
        /\ emit' = w.emit
        /\ calls' = w.calls
        /\ op' = Call("ticks", NULL, NULL)
        /\ streak' = [h \in Buttons |-> NextStreak(w, h, streak[h])]
        /\ obs' = [h \in Buttons |-> IF SampleOf(w, h) = <<>> THEN obs[h]
                                     ELSE NextObs(obs[h], Active(World, h), Active(w, h))]
        /\ prev' = Before
        /\ prevList' = ActiveList

TicksBelowCap == \A h \in ActiveSet : btn[h].ticks < MaxTicks

\* the lines button_ticks will read: one level for each
Lines == {btn[h].button_id : h \in ActiveSet}

\* button_ticks, the periodic scan
ButtonTicks ==
    /\ TicksBelowCap
    /\ \E gpio \in [Lines -> Levels] : TickEffect(gpio)
    /\ UNCHANGED clock

\* button_ticks, counted by the application specification, every line at the same level
ButtonTicksApp ==
    /\ clock < MaxAppTicks
    /\ TicksBelowCap
    /\ \E level \in Levels : TickEffect([id \in Lines |-> level])
    /\ clock' = clock + 1

\* button_ticks, counted, every line at the same level
ButtonTicksCounted ==
    /\ clock < MaxRegTicks
    /\ TicksBelowCap
    /\ \E level \in Levels : TickEffect([id \in Lines |-> level])
    /\ clock' = clock + 1

NoLogs == sampled' = <<>> /\ emit' = <<>> /\ calls' = <<>>

\* ----------------------------------------------------------- button_init
button_init(w, handle, pin_level, active_level, button_id) ==
    IF handle = NULL \/ pin_level = NULL THEN w
    ELSE [w EXCEPT !.btn[handle] = InitButton(pin_level, active_level, button_id)]

HalRead == 1

ButtonInit(handle, pin_level, active_level) ==
    /\ btn' = button_init(World, handle, pin_level, active_level, handle).btn
    /\ streak' = IF handle = NULL \/ pin_level = NULL THEN streak
                 ELSE [streak EXCEPT ![handle] = 0]
    /\ obs' = IF handle = NULL \/ pin_level = NULL THEN obs
              ELSE [obs EXCEPT ![handle] = ObsInit]
    /\ op' = Call("init", handle, NULL)
    /\ NoLogs
    /\ UNCHANGED <<head_handle, clock>>
    /\ prev' = After
    /\ prevList' = ActiveList

\* ---------------------------------------------------------- button_start
\* button_start without the scan for an existing entry
button_startNoScan(w, handle) ==
    IF handle = NULL THEN [w |-> w, ret |-> START_INVALID]
    ELSE [w |-> [w EXCEPT !.btn[handle].next = w.head, !.head = handle],
          ret |-> START_OK]

button_start(w, handle) ==
    IF handle = NULL THEN [w |-> w, ret |-> START_INVALID]
    ELSE IF handle \in SeqToSet(ListFrom(w.btn, w.head, NButtons + 1))
    THEN [w |-> w, ret |-> START_EXISTS]
    ELSE [w |-> [w EXCEPT !.btn[handle].next = w.head, !.head = handle],
          ret |-> START_OK]

ButtonStart(handle) ==
    LET r == button_start(World, handle)
    IN  /\ btn' = r.w.btn
        /\ head_handle' = r.w.head
        /\ op' = Call("start", handle, r.ret)
        /\ NoLogs
        /\ UNCHANGED <<streak, obs, clock>>
        /\ prev' = After
        /\ prevList' = ActiveList

\* button_stop, called by the application
ButtonStop(handle) ==
    LET w == button_stop(World, handle)
    IN  /\ btn' = w.btn
        /\ head_handle' = w.head
        /\ op' = Call("stop", handle, NULL)
        /\ NoLogs
        /\ UNCHANGED <<streak, obs, clock>>
        /\ prev' = After
        /\ prevList' = ActiveList

\* ---------------------------------------------------------- button_reset
\* button_reset that also puts the debounced level back to inactive
button_resetLevel(w, handle) ==
    IF handle = NULL THEN w
    ELSE [w EXCEPT !.btn[handle].state = BTN_STATE_IDLE,
                   !.btn[handle].ticks = 0,
                   !.btn[handle].repeat = 0,
                   !.btn[handle].event = BTN_NONE_PRESS,
                   !.btn[handle].debounce_cnt = 0,
                   !.btn[handle].button_level = Not(w.btn[handle].active_level)]

button_reset(w, handle) ==
    IF handle = NULL THEN w
    ELSE [w EXCEPT !.btn[handle].state = BTN_STATE_IDLE,
                   !.btn[handle].ticks = 0,
                   !.btn[handle].repeat = 0,
                   !.btn[handle].event = BTN_NONE_PRESS,
                   !.btn[handle].debounce_cnt = 0]

ButtonReset(handle) ==
    /\ btn' = button_reset(World, handle).btn
    /\ op' = Call("reset", handle, NULL)
    /\ obs' = IF handle = NULL THEN obs ELSE [obs EXCEPT ![handle] = ObsInit]
    /\ NoLogs
    /\ UNCHANGED <<head_handle, streak, clock>>
    /\ prev' = After
    /\ prevList' = ActiveList

\* ------------------------------------------------- button_attach / detach
button_attach(w, handle, event, cb) ==
    IF handle = NULL \/ event >= BTN_EVENT_COUNT THEN w
    ELSE [w EXCEPT !.btn[handle].cb[event] = cb]

button_detach(w, handle, event) ==
    IF handle = NULL \/ event >= BTN_EVENT_COUNT THEN w
    ELSE [w EXCEPT !.btn[handle].cb[event] = NULL]

ButtonAttach(handle, event, cb) ==
    /\ btn' = button_attach(World, handle, event, cb).btn
    /\ op' = Call("attach", handle, NULL)
    /\ NoLogs
    /\ UNCHANGED <<head_handle, streak, obs, clock>>
    /\ prev' = After
    /\ prevList' = ActiveList

\* ------------------------------------------------- a corrupted state field
\* the values the 3-bit state field can hold that are no ButtonState
InvalidStates == (BTN_STATE_LONG_HOLD + 1)..(StateWidth - 1)

\* a stray write puts a value that is no ButtonState into the state field
CorruptState(handle, s) ==
    /\ clock = 0
    /\ btn[handle].state \notin InvalidStates
    /\ btn' = [btn EXCEPT ![handle].state = s]
    /\ op' = Call("corrupt", handle, NULL)
    /\ NoLogs
    /\ clock' = clock + 1
    /\ UNCHANGED <<head_handle, streak, obs>>
    /\ prev' = After
    /\ prevList' = ActiveList

\* ------------------------------------------------------------- getters
button_get_event(w, handle) == IF handle = NULL THEN BTN_NONE_PRESS ELSE w.btn[handle].event

button_get_repeat_count(w, handle) == IF handle = NULL THEN 0 ELSE w.btn[handle].repeat

button_is_pressed(w, handle) ==
    IF handle = NULL THEN -1
    ELSE IF w.btn[handle].button_level = w.btn[handle].active_level THEN 1 ELSE 0

\* ------------------------------------------------------- specifications
\* After the application has called button_init on each of its buttons.
InitButtons(al) == [h \in Buttons |-> InitButton(HalRead, al[h], h)]

Init ==
    /\ btn = InitButtons([h \in Buttons |-> 1])
    /\ head_handle = NULL
    /\ op = Call("init", NULL, NULL)
    /\ sampled = <<>>
    /\ emit = <<>>
    /\ calls = <<>>
    /\ streak = [h \in Buttons |-> 0]
    /\ obs = [h \in Buttons |-> ObsInit]
    /\ prev = Before
    /\ prevList = <<>>
    /\ clock = 0

\* One button, every call of the API on it, ticks unbounded.
Next ==
    \/ ButtonStart(1)
    \/ ButtonStop(1)
    \/ ButtonReset(1)
    \/ \E al \in Levels : ButtonInit(1, HalRead, al)
    \/ ButtonTicks

Spec == Init /\ [][Next]_vars

\* One button, initialised and started, driven by button_ticks alone.
InitTick ==
    /\ \E al \in Levels :
         btn = [InitButtons([h \in Buttons |-> al]) EXCEPT ![1].next = NULL]
    /\ head_handle = 1
    /\ op = Call("start", 1, START_OK)
    /\ sampled = <<>>
    /\ emit = <<>>
    /\ calls = <<>>
    /\ streak = [h \in Buttons |-> 0]
    /\ obs = [h \in Buttons |-> ObsInit]
    /\ prev = Before
    /\ prevList = <<>>
    /\ clock = 0

NextTick == ButtonTicks

SpecTick == InitTick /\ [][NextTick]_vars

\* All the buttons, the registry calls (start, stop, ticks), a bounded number of ticks
\* that read the same level on every line.
NextReg ==
    \/ \E h \in Handles : ButtonStart(h)
    \/ \E h \in Handles : ButtonStop(h)
    \/ ButtonTicksCounted

SpecReg == Init /\ [][NextReg]_vars

\* One button, initialised, a recording handler attached for every event, started,
\* driven by button_ticks alone.
RECURSIVE AttachAll(_, _, _, _)
AttachAll(w, handle, event, cb) ==
    IF event >= BTN_EVENT_COUNT THEN w
    ELSE AttachAll(button_attach(w, handle, event, cb), handle, event + 1, cb)

InitCb ==
    /\ \E al \in Levels :
         LET w0 == [btn |-> InitButtons([h \in Buttons |-> al]), head |-> NULL,
                    sampled |-> <<>>, emit |-> <<>>, calls |-> <<>>]
             w1 == AttachAll(w0, 1, 0, CbRecord)
             w2 == button_start(w1, 1).w
         IN  btn = w2.btn /\ head_handle = w2.head
    /\ op = Call("start", 1, START_OK)
    /\ sampled = <<>>
    /\ emit = <<>>
    /\ calls = <<>>
    /\ streak = [h \in Buttons |-> 0]
    /\ obs = [h \in Buttons |-> ObsInit]
    /\ prev = Before
    /\ prevList = <<>>
    /\ clock = 0

NextCb == ButtonTicks

SpecCb == InitCb /\ [][NextCb]_vars

\* The application starts the first NAppButtons buttons, attaches to button 1 a handler
\* for PressDown (one that records, or one that stops the button), resets button 1, and
\* ticks a bounded number of times, reading the same level on every line.
AppButtons == 1..NAppButtons

NextApp ==
    \/ \E h \in AppButtons : ButtonStart(h)
    \/ \E cb \in {CbRecord, CbStop} : ButtonAttach(1, BTN_PRESS_DOWN, cb)
    \/ \E h \in {1, NULL} : ButtonReset(h)
    \/ ButtonTicksApp

SpecApp == Init /\ [][NextApp]_vars

\* button_ticks, counted from the stray write on
ButtonTicksFault ==
    /\ clock <= MaxFaultTicks
    /\ TicksBelowCap
    /\ \E gpio \in [Lines -> Levels] : TickEffect(gpio)
    /\ clock' = IF clock = 0 THEN 0 ELSE clock + 1

\* One active-high button, initialised and started, driven by button_ticks; its state field is
\* overwritten once with an invalid value, and MaxFaultTicks ticks follow.
NextFault ==
    \/ ButtonTicksFault
    \/ \E s \in InvalidStates : CorruptState(1, s)

\* the button is active high
InitFault == InitTick /\ btn[1].active_level = 1

SpecFault == InitFault /\ [][NextFault]_vars

\* button_ticks in the long-press scenario: the line of button 1 is active from the
\* first tick on, and once it has been read inactive it stays inactive
ButtonTicksScenario ==
    /\ clock < MaxScenarioTicks
    /\ \E level \in Levels :
         /\ clock = 0 => level = btn[1].active_level
         /\ (clock > 0 /\ SampleOf(World, 1)[1] # btn[1].active_level)
              => level # btn[1].active_level
         /\ TickEffect([id \in Lines |-> level])
    /\ clock' = clock + 1

NextScenario == ButtonTicksScenario

SpecScenario == InitTick /\ [][NextScenario]_vars

\* button_ticks with the line of button 1 going quiet: any level until the line is
\* declared quiet at a tick that reads it inactive, inactive in every tick from then
\* on; clock counts the ticks since, that tick included
ButtonTicksQuiet ==
    /\ clock < MaxQuietTicks
    /\ TicksBelowCap
    /\ \E level \in Levels :
         /\ clock > 0 => level # btn[1].active_level
         /\ TickEffect([id \in Lines |-> level])
         /\ \/ clock' = clock + 1 /\ level # btn[1].active_level
            \/ clock' = 0 /\ clock = 0

NextQuiet == ButtonTicksQuiet

SpecQuiet == InitTick /\ [][NextQuiet]_vars

\* ================================================================ properties
\* h was sampled by the last call (only button_ticks samples)
Sampled(h) == SampleOf(World, h) # <<>>
Raw(h) == SampleOf(World, h)[1]

\* the events button_handler passed to EVENT_CB for h in the last call, in order
RECURSIVE EventsOf(_, _)
EventsOf(log, h) ==
    IF log = <<>> THEN <<>>
    ELSE IF Head(log)[1] = h THEN <<Head(log)[2]>> \o EventsOf(Tail(log), h)
    ELSE EventsOf(Tail(log), h)

Emitted(h) == EventsOf(emit, h)
Emits(h, ev) == \E i \in 1..Len(Emitted(h)) : Emitted(h)[i] = ev

Was(h) == prev.btn[h]
Now(h) == btn[h]
IsActive(h) == btn[h].button_level = btn[h].active_level
WasActive(h) == prev.btn[h].button_level = prev.btn[h].active_level
Moved(h, from, to) == Sampled(h) /\ Was(h).state = from /\ Now(h).state = to

\* C1: the debounced level changes in a tick exactly when the tick's raw sample is the
\* DEBOUNCE_TICKS-th consecutive sample that differs from it; a sample equal to the
\* level restarts the count, so an isolated disagreeing sample never flips the level.
C1_DebounceFlip ==
    \A h \in Buttons : Sampled(h) =>
        /\ (Now(h).button_level # Was(h).button_level)
             <=> (Raw(h) # Was(h).button_level /\ prev.streak[h] = DEBOUNCE_TICKS - 1)
        /\ (Raw(h) = Was(h).button_level => streak[h] = 0 /\ Now(h).debounce_cnt = 0)
        /\ (Now(h).button_level # Was(h).button_level => Now(h).button_level = Raw(h))

\* a tick in which the third consecutive disagreeing sample flipped the level
C1_Witness ==
    \E h \in Buttons :
        /\ Sampled(h) /\ Now(h).button_level # Was(h).button_level
        /\ prev.streak[h] = DEBOUNCE_TICKS - 1

\* C5: a press that stays in BTN_STATE_PRESS for more than LONG_TICKS ticks emits one
\* LongPressStart, then one LongPressHold in every tick while the level stays active,
\* then one PressUp when the level becomes inactive, which leaves the automaton idle;
\* no click follows (none is emitted until the level has become active again).
C5_LongPress ==
    \A h \in Buttons : Sampled(h) =>
        /\ (Was(h).state = BTN_STATE_PRESS /\ Was(h).ticks >= LONG_TICKS /\ IsActive(h))
             => (Emitted(h) = <<BTN_LONG_PRESS_START>> /\ Now(h).state = BTN_STATE_LONG_HOLD)
        /\ Emits(h, BTN_LONG_PRESS_START)
             => (Was(h).state = BTN_STATE_PRESS /\ prev.obs[h].held = LONG_TICKS)
        /\ (Was(h).state = BTN_STATE_LONG_HOLD /\ IsActive(h))
             => (Emitted(h) = <<BTN_LONG_PRESS_HOLD>> /\ Now(h).state = BTN_STATE_LONG_HOLD)
        /\ (Was(h).state = BTN_STATE_LONG_HOLD /\ ~IsActive(h))
             => (Emitted(h) = <<BTN_PRESS_UP>> /\ Now(h).state = BTN_STATE_IDLE)
        /\ (Emits(h, BTN_SINGLE_CLICK) \/ Emits(h, BTN_DOUBLE_CLICK))
             => obs[h].cycles >= 1
        /\ (Now(h).state = BTN_STATE_LONG_HOLD) <=> (IsActive(h) /\ obs[h].held > LONG_TICKS)

\* the release of a long press that was held for at least one LongPressHold
C5_Witness ==
    \E h \in Buttons :
        /\ Moved(h, BTN_STATE_LONG_HOLD, BTN_STATE_IDLE)
        /\ Emitted(h) = <<BTN_PRESS_UP>>
        /\ Was(h).event = BTN_LONG_PRESS_HOLD

ResettingMove(h) ==
    \/ Moved(h, BTN_STATE_IDLE, BTN_STATE_PRESS)
    \/ Moved(h, BTN_STATE_PRESS, BTN_STATE_RELEASE)
    \/ Moved(h, BTN_STATE_RELEASE, BTN_STATE_REPEAT)
    \/ Moved(h, BTN_STATE_REPEAT, BTN_STATE_RELEASE)

KeepingMove(h) ==
    \/ Moved(h, BTN_STATE_PRESS, BTN_STATE_LONG_HOLD)
    \/ Moved(h, BTN_STATE_RELEASE, BTN_STATE_IDLE)
    \/ Moved(h, BTN_STATE_REPEAT, BTN_STATE_IDLE)
    \/ Moved(h, BTN_STATE_REPEAT, BTN_STATE_PRESS)
    \/ Moved(h, BTN_STATE_LONG_HOLD, BTN_STATE_IDLE)

C7_RepeatCapped ==
    \A h \in Buttons :
        /\ Now(h).repeat <= PRESS_REPEAT_MAX_NUM
        /\ (Sampled(h) /\ Emits(h, BTN_PRESS_REPEAT))
             => Now(h).repeat = Min(Was(h).repeat + 1, PRESS_REPEAT_MAX_NUM)

\* a re-press seen with repeat already at 15
C7_Witness ==
    \E h \in Buttons :
        /\ Sampled(h) /\ Emits(h, BTN_PRESS_REPEAT)
        /\ Was(h).repeat = PRESS_REPEAT_MAX_NUM /\ Now(h).repeat = PRESS_REPEAT_MAX_NUM

\* C2: SingleClick is emitted exactly in the tick in which the quiet window of more
\* than SHORT_TICKS ticks expires after a burst of exactly one press/release cycle;
\* it is the only event of that tick and leaves the automaton idle.
C2_SingleClick ==
    \A h \in Buttons : Sampled(h) =>
        /\ Emits(h, BTN_SINGLE_CLICK)
             <=> (obs[h].quiet = SHORT_TICKS + 1 /\ obs[h].cycles = 1)
        /\ Emits(h, BTN_SINGLE_CLICK)
             => (Emitted(h) = <<BTN_SINGLE_CLICK>> /\ Now(h).state = BTN_STATE_IDLE)

\* C3: DoubleClick is emitted exactly in the tick in which the quiet window expires
\* after a burst of exactly two press/release cycles, however long the second press
\* was held short of a long press; button_get_repeat_count then returns 2.
C3_DoubleClick ==
    \A h \in Buttons : Sampled(h) =>
        /\ Emits(h, BTN_DOUBLE_CLICK)
             <=> (obs[h].quiet = SHORT_TICKS + 1 /\ obs[h].cycles = 2)
        /\ Emits(h, BTN_DOUBLE_CLICK)
             => (Emitted(h) = <<BTN_DOUBLE_CLICK>> /\ button_get_repeat_count(World, h) = 2)

\* C4: when the quiet window expires after a burst of three or more press/release
\* cycles, the tick emits nothing and leaves the automaton idle.
C4_NoClickAfterBurst ==
    \A h \in Buttons :
        (Sampled(h) /\ obs[h].quiet = SHORT_TICKS + 1 /\ obs[h].cycles >= 3)
            => (Emitted(h) = <<>> /\ Now(h).state = BTN_STATE_IDLE)

\* the active list before the last call
PrevList == prevList
PrevSet == SeqToSet(PrevList)

NoDuplicates(list) == \A i, j \in 1..Len(list) : list[i] = list[j] => i = j

RECURSIVE Without(_, _)
Without(list, h) ==
    IF list = <<>> THEN <<>>
    ELSE IF Head(list) = h THEN Without(Tail(list), h)
    ELSE <<Head(list)>> \o Without(Tail(list), h)

\* C8: button_start returns -2 for a null handle, returns -1 and leaves the list as it
\* was for a handle already in it, and otherwise puts the handle in front and returns
\* 0; no handle is in the list twice.
C8_Start ==
    /\ NoDuplicates(ActiveList)
    /\ op.name = "start" =>
         /\ op.h = NULL => (op.ret = START_INVALID /\ ActiveList = PrevList)
         /\ (op.h # NULL /\ op.h \in PrevSet)
              => (op.ret = START_EXISTS /\ ActiveList = PrevList)
         /\ (op.h # NULL /\ op.h \notin PrevSet)
              => (op.ret = START_OK /\ ActiveList = <<op.h>> \o PrevList)

\* button_start refused a handle that is in a list of several
C8_Witness ==
    /\ op.name = "start" /\ op.ret = START_EXISTS
    /\ Len(ActiveList) >= 2 /\ op.h = ActiveList[2]

\* C9: button_stop leaves the list as it was for a null handle or one not in it; for
\* a member it removes that handle alone, the others keeping their order, and the
\* handle can be started again.
C9_Stop ==
    op.name = "stop" =>
        /\ (op.h = NULL \/ op.h \notin PrevSet)
             => ActiveList = PrevList
        /\ (op.h # NULL /\ op.h \in PrevSet)
             => /\ ActiveList = Without(PrevList, op.h)
                /\ Len(ActiveList) = Len(PrevList) - 1
                /\ button_start(World, op.h).ret = START_OK
                /\ \A h \in Buttons \ {op.h} : btn[h].next # op.h

\* button_stop took the middle one of three out
C9_Witness ==
    /\ op.name = "stop"
    /\ Len(PrevList) = 3 /\ op.h = PrevList[2]
    /\ ActiveList = <<PrevList[1], PrevList[3]>>

RECURSIVE CallsOf(_, _)
CallsOf(log, h) ==
    IF log = <<>> THEN <<>>
    ELSE IF Head(log).h = h THEN <<Head(log)>> \o CallsOf(Tail(log), h)
    ELSE CallsOf(Tail(log), h)

Called(h) == CallsOf(calls, h)

\* C11: the tick that sees the level active again in BTN_STATE_RELEASE passes PressDown
\* and then PressRepeat to the handlers, in that order, and the PressRepeat handler
\* reads repeat already counted up (to at most 15); every other tick passes at most
\* one event for the instance.
C11_PressDownThenRepeat ==
    \A h \in Buttons : Sampled(h) =>
        /\ (Was(h).state = BTN_STATE_RELEASE /\ IsActive(h))
             => /\ Emitted(h) = <<BTN_PRESS_DOWN, BTN_PRESS_REPEAT>>
                /\ Now(h).state = BTN_STATE_REPEAT
                /\ \A e \in {BTN_PRESS_DOWN, BTN_PRESS_REPEAT} : Was(h).cb[e] # NULL
                     => /\ Len(Called(h)) = 2
                        /\ Called(h)[1].ev = BTN_PRESS_DOWN
                        /\ Called(h)[1].repeat = Was(h).repeat
                        /\ Called(h)[2].ev = BTN_PRESS_REPEAT
                        /\ Called(h)[2].repeat = Min(Was(h).repeat + 1, PRESS_REPEAT_MAX_NUM)
                        /\ Called(h)[2].repeat = button_get_repeat_count(World, h)
        /\ ~(Was(h).state = BTN_STATE_RELEASE /\ IsActive(h)) => Len(Emitted(h)) <= 1
        /\ \A i \in 1..Len(Emitted(h)) : Was(h).cb[Emitted(h)[i]] # NULL
             => (Len(Called(h)) = Len(Emitted(h)) /\ Called(h)[i].ev = Emitted(h)[i])

\* the second press of a burst reached the two handlers, the second reading repeat 2
C11_Witness ==
    \E h \in Buttons :
        /\ Moved(h, BTN_STATE_RELEASE, BTN_STATE_REPEAT)
        /\ Len(Called(h)) = 2
        /\ Called(h)[1].ev = BTN_PRESS_DOWN /\ Called(h)[1].repeat = 1
        /\ Called(h)[2].ev = BTN_PRESS_REPEAT /\ Called(h)[2].repeat = 2


Last(s) == s[Len(s)]

\* C12: after a tick that passed one or more events of an instance to EVENT_CB,
\* button_get_event returns the last of them, whatever the event.
C12_GetEventIsLastEvent ==
    \A h \in Buttons :
        (Sampled(h) /\ Emitted(h) # <<>>) => button_get_event(World, h) = Last(Emitted(h))


\* C13: button_reset puts state to idle, ticks, repeat and debounce_cnt to 0 and event
\* to none, and changes nothing else: the list of active buttons and the button's
\* place in it, its handlers, active_level, button_id and debounced button_level, and
\* every other button stay as they were; on a null handle nothing changes.
C13_Reset ==
    [][ op'.name = "reset" =>
          /\ head_handle' = head_handle
          /\ ListFrom(btn', head_handle', NButtons + 1) = ActiveList
          /\ \A h \in Buttons \ {op'.h} : btn'[h] = btn[h]
          /\ op'.h = NULL => btn' = btn
          /\ op'.h # NULL =>
               /\ btn'[op'.h].state = BTN_STATE_IDLE
               /\ btn'[op'.h].ticks = 0
               /\ btn'[op'.h].repeat = 0
               /\ btn'[op'.h].debounce_cnt = 0
               /\ btn'[op'.h].event = BTN_NONE_PRESS
               /\ btn'[op'.h].cb = btn[op'.h].cb
               /\ btn'[op'.h].active_level = btn[op'.h].active_level
               /\ btn'[op'.h].button_id = btn[op'.h].button_id
               /\ btn'[op'.h].button_level = btn[op'.h].button_level
               /\ btn'[op'.h].hal_button_level = btn[op'.h].hal_button_level
               /\ btn'[op'.h].next = btn[op'.h].next ]_vars

\* button_reset on the second member of the list, which has a handler and whose
\* debounced level is active (it had been pressed)
C13_Witness ==
    /\ op.name = "reset" /\ op.h # NULL
    /\ Len(ActiveList) >= 2 /\ ActiveList[2] = op.h
    /\ btn[op.h].cb[BTN_PRESS_DOWN] # NULL
    /\ IsActive(op.h) /\ btn[op.h].state = BTN_STATE_IDLE /\ btn[op.h].repeat = 0


\* the button as button_reset leaves it, the debounce filter kept as it is
Fresh(w, h) ==
    [w EXCEPT !.btn[h].ticks = 0, !.btn[h].repeat = 0, !.btn[h].event = BTN_NONE_PRESS]

\* button_handler does to an idle button what it does to a fresh one: the same events,
\* state, event field and debounce filter, and the same button altogether once pressed
IdleAsFresh(h) ==
    \A level \in Levels :
        LET gpio == [id \in {btn[h].button_id} |-> level]
            a == button_handler(World, h, gpio)
            b == button_handler(Fresh(World, h), h, gpio)
        IN  /\ a.emit = b.emit
            /\ a.btn[h].state = b.btn[h].state
            /\ a.btn[h].event = b.btn[h].event
            /\ a.btn[h].button_level = b.btn[h].button_level
            /\ a.btn[h].debounce_cnt = b.btn[h].debounce_cnt
            /\ a.btn[h].state # BTN_STATE_IDLE => a.btn[h] = b.btn[h]

\* C14: a tick that finds a state value that is no ButtonState (5, 6 or 7) leaves the
\* state idle and passes no event; no tick leaves an invalid state behind; and an idle
\* button, recovered or not, classifies what follows as a fresh idle button does.
C14_InvalidStateRecovers ==
    \A h \in Buttons :
        /\ Sampled(h) => Now(h).state \notin InvalidStates
        /\ (Sampled(h) /\ Was(h).state \in InvalidStates)
             => (Now(h).state = BTN_STATE_IDLE /\ Emitted(h) = <<>>)
        /\ Now(h).state = BTN_STATE_IDLE => IdleAsFresh(h)

\* a tick that found state 7 on a button held since before the write, and left it idle
C14_Witness ==
    \E h \in Buttons :
        /\ Sampled(h) /\ Was(h).state = StateWidth - 1 /\ Now(h).state = BTN_STATE_IDLE
        /\ Was(h).ticks > 0 /\ IsActive(h)


\* C15: a fresh started button whose line is active from the first tick on emits
\* PressDown in tick DEBOUNCE_TICKS, nothing in the LONG_TICKS ticks after it,
\* LongPressStart in tick DEBOUNCE_TICKS + LONG_TICKS + 1 and LongPressHold in every
\* later tick; once the line is inactive, LongPressHold in the first
\* DEBOUNCE_TICKS - 1 ticks, PressUp in the next, which leaves it idle, then nothing.
C15_LongPressScenario ==
    LET h == 1
        held == Raw(h) = Now(h).active_level
        start == DEBOUNCE_TICKS + LONG_TICKS + 1
    IN  Sampled(h) =>
          /\ held =>
               Emitted(h) = IF clock = DEBOUNCE_TICKS THEN <<BTN_PRESS_DOWN>>
                            ELSE IF clock = start THEN <<BTN_LONG_PRESS_START>>
                            ELSE IF clock > start THEN <<BTN_LONG_PRESS_HOLD>>
                            ELSE <<>>
          /\ (~held /\ Was(h).state = BTN_STATE_LONG_HOLD /\ prev.streak[h] < DEBOUNCE_TICKS - 1)
               => (Emitted(h) = <<BTN_LONG_PRESS_HOLD>> /\ Now(h).state = BTN_STATE_LONG_HOLD)
          /\ (~held /\ Was(h).state = BTN_STATE_LONG_HOLD /\ prev.streak[h] = DEBOUNCE_TICKS - 1)
               => (Emitted(h) = <<BTN_PRESS_UP>> /\ Now(h).state = BTN_STATE_IDLE)
          /\ (~held /\ Was(h).state = BTN_STATE_IDLE /\ clock > start)
               => (Emitted(h) = <<>> /\ Now(h).state = BTN_STATE_IDLE)

\* the PressUp of a press released right after its LongPressStart, two LongPressHold
\* between them
C15_Witness ==
    /\ Sampled(1) /\ Emitted(1) = <<BTN_PRESS_UP>>
    /\ Was(1).state = BTN_STATE_LONG_HOLD /\ Was(1).event = BTN_LONG_PRESS_HOLD
    /\ clock = DEBOUNCE_TICKS + LONG_TICKS + 1 + DEBOUNCE_TICKS


\* C16: only a tick that begins in BTN_STATE_PRESS emits LongPressStart or enters
\* BTN_STATE_LONG_HOLD; a re-press still held when ticks passes SHORT_TICKS in
\* BTN_STATE_REPEAT moves to BTN_STATE_PRESS and emits nothing, and BTN_STATE_REPEAT
\* is left for BTN_STATE_PRESS, BTN_STATE_RELEASE or BTN_STATE_IDLE only.
C16_LongPressOnlyFromPress ==
    \A h \in Buttons : Sampled(h) =>
        /\ Emits(h, BTN_LONG_PRESS_START) => Was(h).state = BTN_STATE_PRESS
        /\ (Now(h).state = BTN_STATE_LONG_HOLD /\ Was(h).state # BTN_STATE_LONG_HOLD)
             => (Was(h).state = BTN_STATE_PRESS /\ Emitted(h) = <<BTN_LONG_PRESS_START>>)
        /\ (Was(h).state = BTN_STATE_REPEAT /\ IsActive(h) /\ Was(h).ticks >= SHORT_TICKS)
             => (Now(h).state = BTN_STATE_PRESS /\ Emitted(h) = <<>>)
        /\ (Was(h).state = BTN_STATE_REPEAT /\ IsActive(h) /\ Was(h).ticks < SHORT_TICKS)
             => (Now(h).state = BTN_STATE_REPEAT /\ Emitted(h) = <<>>)
        /\ Was(h).state = BTN_STATE_REPEAT
             => Now(h).state \in {BTN_STATE_REPEAT, BTN_STATE_PRESS,
                                  BTN_STATE_RELEASE, BTN_STATE_IDLE}

\* the long press of a re-press: it began in BTN_STATE_REPEAT (repeat 2) and its
\* LongPressStart comes from BTN_STATE_PRESS
C16_Witness ==
    \E h \in Buttons :
        /\ Moved(h, BTN_STATE_PRESS, BTN_STATE_LONG_HOLD)
        /\ Emitted(h) = <<BTN_LONG_PRESS_START>>
        /\ Now(h).repeat = 2


\* C17: a tick runs button_handler exactly once on every button that was in the list
\* when the tick began, also when a handler invoked in that tick calls button_stop on
\* its own button; the stopped button alone leaves the list.
C17_StopInHandler ==
    op.name = "ticks" =>
        /\ \A h \in PrevSet : Sampled(h)
        /\ Len(sampled) = Len(PrevList)
        /\ \A h \in PrevSet :
             h \notin ActiveSet
               => \E i \in 1..Len(calls) : calls[i].h = h /\ Was(h).cb[calls[i].ev] = CbStop


\* the number of times ev is in the sequence
RECURSIVE Count(_, _)
Count(s, ev) ==
    IF s = <<>> THEN 0 ELSE (IF Head(s) = ev THEN 1 ELSE 0) + Count(Tail(s), ev)

Pressed(state) == state \in {BTN_STATE_PRESS, BTN_STATE_REPEAT, BTN_STATE_LONG_HOLD}

\* C18: driven by ticks alone, a button emits PressDown exactly in the ticks in which
\* its debounced level, inactive at first, becomes active, and PressUp exactly in the
\* ticks in which it becomes inactive, at most one of each per tick: PressDown and
\* PressUp alternate, PressDown first. The automaton is in a pressed state exactly
\* between a PressDown and the next PressUp.
C18_DownUpAlternate ==
    \A h \in Buttons :
        /\ Pressed(Now(h).state) <=> IsActive(h)
        /\ Sampled(h) =>
             /\ Emits(h, BTN_PRESS_DOWN) <=> (~WasActive(h) /\ IsActive(h))
             /\ Emits(h, BTN_PRESS_UP) <=> (WasActive(h) /\ ~IsActive(h))
             /\ Emits(h, BTN_PRESS_DOWN) <=> (~Pressed(Was(h).state) /\ Pressed(Now(h).state))
             /\ Emits(h, BTN_PRESS_UP) <=> (Pressed(Was(h).state) /\ ~Pressed(Now(h).state))
             /\ Count(Emitted(h), BTN_PRESS_DOWN) <= 1
             /\ Count(Emitted(h), BTN_PRESS_UP) <= 1

\* the PressUp of the second press of a burst
C18_Witness ==
    \E h \in Buttons :
        /\ Sampled(h) /\ Emits(h, BTN_PRESS_UP)
        /\ Was(h).state = BTN_STATE_REPEAT /\ WasActive(h) /\ ~IsActive(h)


\* C19: whatever state a ticked button is in, once DEBOUNCE_TICKS + SHORT_TICKS + 2
\* consecutive ticks have read its line inactive it is idle with event none, and it
\* stays so in every further tick that reads the line inactive.
C19_QuietLineGoesIdle ==
    clock >= DEBOUNCE_TICKS + SHORT_TICKS + 2
        => (Now(1).state = BTN_STATE_IDLE /\ button_get_event(World, 1) = BTN_NONE_PRESS)

\* the bound is met with no tick to spare: a press released when the line went quiet
\* gives its SingleClick in the tick before the last
C19_Witness ==
    /\ clock = DEBOUNCE_TICKS + SHORT_TICKS + 2
    /\ Was(1).event = BTN_SINGLE_CLICK
    /\ Now(1).state = BTN_STATE_IDLE /\ Now(1).event = BTN_NONE_PRESS


\* C20: after button_reset on a started button whose debounced level is active, the
\* very next tick that reads the line active emits PressDown alone (no PressUp, no
\* new debounce: the level stays as it is) and enters BTN_STATE_PRESS with repeat 1 and
\* ticks 0; from there every tick with the level still active counts ticks up by one
\* and emits LongPressStart exactly when ticks reaches LONG_TICKS + 1.
C20_ResetWhileHeld ==
    [][ /\ ( /\ op.name = "reset" /\ op.h = 1 /\ IsActive(1) /\ 1 \in ActiveSet
             /\ op'.name = "ticks"
             /\ sampled' = <<<<btn[1].button_id, btn[1].active_level>>>> )
          => /\ emit' = <<<<1, BTN_PRESS_DOWN>>>>
             /\ btn'[1].state = BTN_STATE_PRESS
             /\ btn'[1].repeat = 1
             /\ btn'[1].ticks = 0
             /\ btn'[1].button_level = btn[1].button_level
             /\ btn'[1].debounce_cnt = 0
        /\ ( /\ btn[1].state = BTN_STATE_PRESS /\ 1 \in ActiveSet
             /\ op'.name = "ticks"
             /\ btn'[1].button_level = btn'[1].active_level )
          => /\ btn'[1].ticks = btn[1].ticks + 1
             /\ emit' = IF btn'[1].ticks = LONG_TICKS + 1
                        THEN <<<<1, BTN_LONG_PRESS_START>>>> ELSE <<>>
             /\ btn'[1].state = IF btn'[1].ticks = LONG_TICKS + 1
                                THEN BTN_STATE_LONG_HOLD ELSE BTN_STATE_PRESS
      ]_vars

\* the tick after a reset of a held button: PressDown from an idle button whose
\* debounced level was active already
C20_Witness ==
    /\ op.name = "ticks" /\ Sampled(1)
    /\ Was(1).state = BTN_STATE_IDLE /\ WasActive(1) /\ Was(1).repeat = 0
    /\ Was(1).event = BTN_NONE_PRESS
    /\ Emitted(1) = <<BTN_PRESS_DOWN>> /\ Now(1).state = BTN_STATE_PRESS
    /\ Now(1).repeat = 1 /\ Now(1).ticks = 0

====
